---------------------------- MODULE Spec2Model ----------------------------
(***************************************************************************)
(* PawRun: the endless-runner simulation of src/components/GameCanvas.tsx  *)
(* (the refs of GameCanvas, the scene objects the loop keeps in arrays,    *)
(* handleInput, resetGame, spawnObstacles and the requestAnimationFrame    *)
(* loop) together with the presentation state machine of src/App.tsx.      *)
(*                                                                         *)
(* Numbers.  Positions, offsets and velocities are fixed-point integers    *)
(* of 1/Unit world units (Unit = 20000, so the speed increment 0.00005 is  *)
(* one unit).  speedRef is kept as the IEEE-754 double the program holds:  *)
(* a little-endian sequence of five base-2^14 limbs counting multiples of  *)
(* 2^-67, added with round-to-nearest-even as JavaScript adds numbers.     *)
(***************************************************************************)
EXTENDS Integers, Sequences, FiniteSets, TLC

VARIABLES game, app, ev, pressed, run, host, briefing, audio

vars == <<game, app, ev, pressed, run, host, briefing, audio>>

-----------------------------------------------------------------------------
(* Configuration: GameCanvas.tsx lines 13-23, scaled by Unit.               *)

Unit == 20000

LANE_WIDTH == 4 * Unit
GRAVITY == 240
JUMP_FORCE == 10000
CHUNK_LENGTH == 20 * Unit
SLIDE_TICKS == 50
COIN_REWARD == 10

LaneLeft == 0
LaneCenter == 1
LaneRight == 2
Lanes == {LaneLeft, LaneCenter, LaneRight}

-----------------------------------------------------------------------------
(* IEEE-754 doubles in [1/4, 1): value = sum of limb[i] * 2^(14(i-1)) in    *)
(* units of 2^-67.  In [1/4, 1/2) a double is a multiple of 2^13 units, in  *)
(* [1/2, 1) a multiple of 2^14 units.                                       *)

LimbBase == 16384
HalfLimb == 8192
QuarterLimb == 4096

\* 0.25, 0.6 and 0.00005 as the doubles nearest to them
PLAYER_SPEED_BASE == <<0, 0, 0, 0, 512>>
MAX_SPEED == <<0, 13107, 3276, 13107, 1228>>
SPEED_INCREMENT == <<813, 11377, 11822, 1677, 0>>

RECURSIVE AddCarry(_, _, _, _)
AddCarry(a, b, i, carry) ==
    IF i > Len(a) THEN <<>>
    ELSE LET t == a[i] + b[i] + carry
         IN <<t % LimbBase>> \o AddCarry(a, b, i + 1, t \div LimbBase)

\* the exact sum of two limb sequences
ExactAdd(a, b) == AddCarry(a, b, 1, 0)

\* a + 2^14 units (one unit of the second limb)
BumpSecond(a) == ExactAdd(a, <<0, 1, 0, 0, 0>>)

\* round-to-nearest, ties-to-even, of an exact sum to a representable double
RoundDouble(x) ==
    IF x[5] >= 1024
    THEN \* [1/2, 1): quantum 2^14
         LET r == x[1]
             base == [x EXCEPT ![1] = 0]
         IN IF r > HalfLimb \/ (r = HalfLimb /\ x[2] % 2 = 1)
            THEN BumpSecond(base) ELSE base
    ELSE \* [1/4, 1/2): quantum 2^13
         LET r == x[1] % HalfLimb
             k == x[1] \div HalfLimb
             base == [x EXCEPT ![1] = k * HalfLimb]
         IN IF r > QuarterLimb \/ (r = QuarterLimb /\ k = 1)
            THEN (IF k = 1 THEN BumpSecond([x EXCEPT ![1] = 0])
                  ELSE [x EXCEPT ![1] = HalfLimb])
            ELSE base

\* a + b as JavaScript computes it
FloatAdd(a, b) == RoundDouble(ExactAdd(a, b))

RECURSIVE LessFrom(_, _, _)
LessFrom(a, b, i) ==
    IF i = 0 THEN FALSE
    ELSE IF a[i] # b[i] THEN a[i] < b[i]
    ELSE LessFrom(a, b, i - 1)

\* a < b on doubles
FloatLess(a, b) == LessFrom(a, b, Len(a))

RECURSIVE MulCarry(_, _, _, _)
MulCarry(a, m, i, carry) ==
    IF i > Len(a) THEN <<carry % LimbBase, carry \div LimbBase>>
    ELSE LET t == a[i] * m + carry
         IN <<t % LimbBase>> \o MulCarry(a, m, i + 1, t \div LimbBase)

\* the double as a fixed-point number of 1/Unit, rounded to nearest:
\* (a * Unit) / 2^67, the limbs below 2^56 being below the resolution
ToFixed(a) ==
    LET p == MulCarry(a, Unit, 1, 0)
    IN ((p[7] * LimbBase + p[6]) * LimbBase + p[5] + 1024) \div 2048

-----------------------------------------------------------------------------
(* The scene objects.  An obstacle or collectible is the record of what the *)
(* loop reads of its THREE.Group: userData.type, the factory that built it  *)
(* (its bounding box), position.x (by lane), position.z and, for a bone,    *)
(* the number of 0.05 rad turns its rotation.y has received.                *)

COIN == "COIN"
OBSTACLE_LOW == "OBSTACLE_LOW"
OBSTACLE_HIGH == "OBSTACLE_HIGH"

\* userData.type as the factories createBone/createCar/createBus/createBridge set it
TypeOf(model) ==
    CASE model = "bone" -> COIN
      [] model = "car" -> OBSTACLE_LOW
      [] model = "bus" -> OBSTACLE_HIGH
      [] model = "bridge" -> OBSTACLE_HIGH

\* const xPos = (lane - 1) * LANE_WIDTH
LaneX(lane) == (lane - 1) * LANE_WIDTH

Entity(model, lane, z) ==
    [type |-> TypeOf(model), model |-> model, lane |-> lane, z |-> z, spin |-> 0]

\* the initial ground: spawnFloorChunk(-i * CHUNK_LENGTH) for i = 0..7
InitialChunks == {-(i * CHUNK_LENGTH) : i \in 0..7}

INITIAL_SPAWN_Z == -(7 * CHUNK_LENGTH)

\* the values of the refs and of the player object when the component is built
\* (useRef initial values, the scene built by the mount effect)
Mounted ==
    [score |-> 0, speed |-> PLAYER_SPEED_BASE, playerLane |-> LaneCenter,
     currentLaneX |-> 0, playerVelocityY |-> 0, playerJumpY |-> 0,
     isJumping |-> FALSE, isSliding |-> FALSE, slideTimer |-> 0,
     gameActive |-> FALSE, lastSpawnZ |-> INITIAL_SPAWN_Z, playerZ |-> 0,
     bodyY |-> 0, collapsed |-> FALSE, legs |-> "rest",
     obstacles |-> {}, coins |-> {}, scenery |-> {},
     floorChunks |-> InitialChunks]

\* a faulty resetGame: the two pose flags are left as they are
resetGameKeepsPose(s) ==
    [s EXCEPT !.score = 0, !.speed = PLAYER_SPEED_BASE,
              !.playerLane = LaneCenter, !.currentLaneX = 0,
              !.playerVelocityY = 0, !.playerJumpY = 0,
              !.obstacles = {}, !.coins = {}, !.scenery = {},
              !.floorChunks = InitialChunks,
              !.lastSpawnZ = INITIAL_SPAWN_Z, !.playerZ = 0]

\* resetGame: the refs it assigns, the four arrays it empties, the eight
\* chunks it spawns again, player.position.set(0, 0, 0).  It leaves
\* slideTimer, gameActive and the body group's scale/position/limbs alone.
resetGame(s) ==
    [s EXCEPT !.score = 0, !.speed = PLAYER_SPEED_BASE,
              !.playerLane = LaneCenter, !.currentLaneX = 0,
              !.playerVelocityY = 0, !.playerJumpY = 0,
              !.isJumping = FALSE, !.isSliding = FALSE,
              !.obstacles = {}, !.coins = {}, !.scenery = {},
              !.floorChunks = InitialChunks,
              !.lastSpawnZ = INITIAL_SPAWN_Z, !.playerZ = 0]

-----------------------------------------------------------------------------
(* What one handler or one tick emits: the calls of audioManager.play* and  *)
(* of the two props, counted, with the arguments of the prop calls, and the *)
(* bones (lane, z) the tick took out of the scene as collected.             *)

NoEvents ==
    [jump |-> 0, slide |-> 0, coin |-> 0, crash |-> 0, whine |-> 0,
     scoreUpdate |-> 0, gameOver |-> 0, gameOverScore |-> 0, taken |-> {}]

-----------------------------------------------------------------------------
(* handleInput                                                              *)

\* a faulty conversion: the key as it was typed
AsTyped(key) == key

\* key.toLowerCase()
toLowerCase(key) ==
    CASE key = "A" -> "a"
      [] key = "X" -> "x"
      [] key = "D" -> "d"
      [] key = "W" -> "w"
      [] key = "S" -> "s"
      [] key = "ArrowLeft" -> "arrowleft"
      [] key = "ArrowRight" -> "arrowright"
      [] key = "ArrowUp" -> "arrowup"
      [] key = "ArrowDown" -> "arrowdown"
      [] key = "Enter" -> "enter"
      [] OTHER -> key

IsLeftKey(k) == k = "a" \/ k = "arrowleft"
IsRightKey(k) == k = "d" \/ k = "arrowright"
IsJumpKey(k) == k = "w" \/ k = "arrowup" \/ k = " "
IsSlideKey(k) == k = "s" \/ k = "arrowdown"

\* the four ifs of handleInput, in order; each reads the refs the earlier
\* ones wrote.  Result: the refs and the cues played.
\* a faulty handleInput step: lane-left refused in the air
InputLeftGrounded(r, k) ==
    IF IsLeftKey(k) /\ r.g.playerLane > LaneLeft /\ ~r.g.isJumping
    THEN [g |-> [r.g EXCEPT !.playerLane = @ - 1],
          e |-> [r.e EXCEPT !.slide = @ + 1]]
    ELSE r

InputLeft(r, k) ==
    IF IsLeftKey(k) /\ r.g.playerLane > LaneLeft
    THEN [g |-> [r.g EXCEPT !.playerLane = @ - 1],
          e |-> [r.e EXCEPT !.slide = @ + 1]]
    ELSE r

\* a faulty handleInput step: the lane changed to the right without a cue
InputRightSilent(r, k) ==
    IF IsRightKey(k) /\ r.g.playerLane < LaneRight
    THEN [g |-> [r.g EXCEPT !.playerLane = @ + 1], e |-> r.e]
    ELSE r

InputRight(r, k) ==
    IF IsRightKey(k) /\ r.g.playerLane < LaneRight
    THEN [g |-> [r.g EXCEPT !.playerLane = @ + 1],
          e |-> [r.e EXCEPT !.slide = @ + 1]]
    ELSE r

\* a faulty handleInput step: the jump accepted while sliding
InputJumpWhileSliding(r, k) ==
    IF IsJumpKey(k) /\ ~r.g.isJumping
    THEN [g |-> [r.g EXCEPT !.isJumping = TRUE, !.playerVelocityY = JUMP_FORCE],
          e |-> [r.e EXCEPT !.jump = @ + 1]]
    ELSE r

InputJump(r, k) ==
    IF IsJumpKey(k) /\ ~r.g.isJumping /\ ~r.g.isSliding
    THEN [g |-> [r.g EXCEPT !.isJumping = TRUE, !.playerVelocityY = JUMP_FORCE],
          e |-> [r.e EXCEPT !.jump = @ + 1]]
    ELSE r

\* a faulty handleInput step: the slide accepted in the air
InputSlideWhileJumping(r, k) ==
    IF IsSlideKey(k) /\ ~r.g.isSliding
    THEN [g |-> [r.g EXCEPT !.isSliding = TRUE, !.slideTimer = SLIDE_TICKS],
          e |-> [r.e EXCEPT !.slide = @ + 1]]
    ELSE r

InputSlide(r, k) ==
    IF IsSlideKey(k) /\ ~r.g.isSliding /\ ~r.g.isJumping
    THEN [g |-> [r.g EXCEPT !.isSliding = TRUE, !.slideTimer = SLIDE_TICKS],
          e |-> [r.e EXCEPT !.slide = @ + 1]]
    ELSE r

\* a faulty handleInput: without the early return of an inactive run
handleInputAlways(s, key) ==
    LET k == toLowerCase(key)
    IN InputSlide(InputJump(InputRight(InputLeft(
           [g |-> s, e |-> NoEvents], k), k), k), k)

handleInput(s, key) ==
    IF ~s.gameActive THEN [g |-> s, e |-> NoEvents]
    ELSE LET k == toLowerCase(key)
         IN InputSlide(InputJump(InputRight(InputLeft(
                [g |-> s, e |-> NoEvents], k), k), k), k)

-----------------------------------------------------------------------------
(* Bounding boxes.  new THREE.Box3().setFromObject(o) is the union of the   *)
(* geometry boxes of o's meshes under their world matrices; the extents     *)
(* below are that union for the groups the factories build, in 1/Unit.      *)

Box(x0, x1, y0, y1, z0, z1) ==
    [x0 |-> x0, x1 |-> x1, y0 |-> y0, y1 |-> y1, z0 |-> z0, z1 |-> z1]

\* Box3.intersectsBox: boxes that touch intersect
intersectsBox(a, b) ==
    ~(\/ b.x1 < a.x0 \/ b.x0 > a.x1
      \/ b.y1 < a.y0 \/ b.y0 > a.y1
      \/ b.z1 < a.z0 \/ b.z0 > a.z1)

Abs(n) == IF n < 0 THEN -n ELSE n
Max(a, b) == IF a > b THEN a ELSE b

\* createChase at rest: half width, top of the hat, front and back extent
\* (the player looks down -z: rotation.y = PI)
BODY_HALF_X == 12263
BODY_TOP == 53366
BODY_FRONT == 19016

\* lowest point of the paws and reach of the hind legs, by limb pose: the
\* pose createChase builds ("rest"), two samples of the run animation's
\* clock (f0: sin(time*1.5) = 0, f1: |sin(time*1.5)| = 1) and the jump pose
LegBottom(legs) ==
    CASE legs = "f1" -> -1301
      [] legs = "tucked" -> 280
      [] OTHER -> -240

BodyBack(legs) == IF legs = "f0" THEN 15856 ELSE 15576

\* bodyGroup.position.y the run animation sets at the two clock samples
Bounce(frame) == IF frame = "f1" THEN 3000 ELSE 0

\* bodyGroup.position.y while sliding
SLIDE_BODY_Y == 8000

\* player.rotation.z = (targetX - currentLaneX) * 0.1 leans the body: the
\* extent of the box towards the target lane and away from it, at the
\* offsets TiltAt, for the full and for the collapsed (1.2, 0.5, 1.2) body
TiltAt == <<0, 10000, 20000, 40000, 64000, 80000, 128000>>
LeanFull == <<12263, 15089, 17878, 23314, 29525, 33435, 43866>>
AwayFull == <<12263, 9687, 8349, 5789, 4659, 3868, 1365>>
LeanCollapsed == <<14715, 16318, 17879, 20864, 24169, 26182, 31169>>
AwayCollapsed == <<14715, 13112, 11476, 9560, 7182, 5538, 2494>>

RECURSIVE Segment(_, _)
Segment(d, j) ==
    IF j >= Len(TiltAt) - 1 \/ d < TiltAt[j + 1] THEN j ELSE Segment(d, j + 1)

\* linear interpolation of a table over TiltAt, clamped at its last entry
Interp(d, table) ==
    LET dd == IF d > TiltAt[Len(TiltAt)] THEN TiltAt[Len(TiltAt)] ELSE d
        j == Segment(dd, 1)
    IN table[j] + ((dd - TiltAt[j]) * (table[j + 1] - table[j]))
                    \div (TiltAt[j + 1] - TiltAt[j])

\* the margins the loop shrinks the boxes by
PLAYER_SHRINK_X == 6000
PLAYER_SHRINK_Y == 4000
PLAYER_SHRINK_Z == 8000
OBSTACLE_SHRINK == 4000

\* playerBox: setFromObject(player), then the three shrinks.  The player is
\* taken at rotation.y = PI, where resetGame puts it (the menu branch of
\* the loop turns it by up to 0.2 rad), and the lean is applied to the
\* horizontal extent only
PlayerBox(s) ==
    LET d == LaneX(s.playerLane) - s.currentLaneX
        lean == Interp(Abs(d), IF s.collapsed THEN LeanCollapsed ELSE LeanFull)
        away == Interp(Abs(d), IF s.collapsed THEN AwayCollapsed ELSE AwayFull)
        left == IF d < 0 THEN lean ELSE away
        right == IF d < 0 THEN away ELSE lean
        base == s.playerJumpY + s.bodyY
        bottom == IF s.collapsed THEN LegBottom(s.legs) \div 2 ELSE LegBottom(s.legs)
        top == IF s.collapsed THEN BODY_TOP \div 2 ELSE BODY_TOP
        front == IF s.collapsed THEN (BODY_FRONT * 6) \div 5 ELSE BODY_FRONT
        back == IF s.collapsed THEN (BodyBack(s.legs) * 6) \div 5 ELSE BodyBack(s.legs)
    IN Box(s.currentLaneX - left + PLAYER_SHRINK_X,
           s.currentLaneX + right - PLAYER_SHRINK_X,
           base + bottom + PLAYER_SHRINK_Y,
           base + top - PLAYER_SHRINK_Y,
           s.playerZ - front + PLAYER_SHRINK_Z,
           s.playerZ + back - PLAYER_SHRINK_Z)

\* createCar, createBus, createBridge: half width, height, extent towards
\* -z and towards +z of the group's box
ModelHalfX(model) ==
    CASE model = "car" -> 27100
      [] model = "bus" -> 32000
      [] model = "bridge" -> 60000

ModelTop(model) ==
    CASE model = "car" -> 37000
      [] model = "bus" -> 68000
      [] model = "bridge" -> 105000

ModelFront(model) ==
    CASE model = "car" -> 45000
      [] model = "bus" -> 70000
      [] model = "bridge" -> 20000

ModelBack(model) ==
    CASE model = "car" -> 50200
      [] model = "bus" -> 70000
      [] model = "bridge" -> 20000

\* the obstacle's box: setFromObject(o), shrunk in x and z; every obstacle
\* stands at position.y = 0
ObstacleBox(o) ==
    Box(LaneX(o.lane) - ModelHalfX(o.model) + OBSTACLE_SHRINK,
        LaneX(o.lane) + ModelHalfX(o.model) - OBSTACLE_SHRINK,
        0, ModelTop(o.model),
        o.z - ModelFront(o.model) + OBSTACLE_SHRINK,
        o.z + ModelBack(o.model) - OBSTACLE_SHRINK)

\* createBone: the stick and bulbs turn with rotation.y (0.05 per tick, a
\* half turn every 63 ticks), sampled at four angles of the half turn
SPIN_HALF_TURN == 63
SpinPhase(spin) == ((spin % SPIN_HALF_TURN) * 4) \div SPIN_HALF_TURN
BoneHalfX(spin) ==
    CASE SpinPhase(spin) = 0 -> 13920
      [] SpinPhase(spin) = 1 -> 9380
      [] SpinPhase(spin) = 2 -> 9960
      [] OTHER -> 13920
BoneHalfZ(spin) ==
    CASE SpinPhase(spin) = 0 -> 9660
      [] SpinPhase(spin) = 1 -> 13920
      [] SpinPhase(spin) = 2 -> 13900
      [] OTHER -> 9060
BONE_HALF_Y == 5000

\* the glow ring (outer radius 0.8) scaled by 1 + sin(Date.now() * 0.01) * 0.2
\* and turned to the camera, at the two extremes of the scale
GlowRadius(glow) == IF glow = "wide" THEN 19200 ELSE 12800
GlowHalfY(glow) == IF glow = "wide" THEN 18240 ELSE 12160
GlowHalfZ(glow) == IF glow = "wide" THEN 5760 ELSE 3840

\* entity.position.y of a bone
COIN_Y == 24000

\* setFromObject(c), after the tick has turned the bone and its glow
CoinBox(c, glow) ==
    LET hx == Max(BoneHalfX(c.spin), GlowRadius(glow))
        hy == Max(BONE_HALF_Y, GlowHalfY(glow))
        hz == Max(BoneHalfZ(c.spin), GlowHalfZ(glow))
    IN Box(LaneX(c.lane) - hx, LaneX(c.lane) + hx,
           COIN_Y - hy, COIN_Y + hy, c.z - hz, c.z + hz)

-----------------------------------------------------------------------------
(* spawnFloorChunk and spawnObstacles.  What Math.random() decides in       *)
(* spawnObstacles is one outcome: the obstacles/collectibles (none when the *)
(* first draw is <= 0.3), each with its lane, its factory and its draw      *)
(* Math.random() * 10 of the z offset, and whether the building is placed.  *)

SPAWN_MIN_OFFSET == 5 * Unit
BUILDING_OFFSET == 10 * Unit
Models == {"bone", "car", "bus", "bridge"}

\* an outcome of spawnObstacles is well formed: count is 1 or 2 and the
\* lanes are the first entries of a shuffle of the three lanes
IsSpawnOutcome(out) ==
    /\ Cardinality(out.ents) <= 2
    /\ \A a \in out.ents : a.lane \in Lanes /\ a.model \in Models
                           /\ a.dz >= 0 /\ a.dz < 10 * Unit
    /\ \A a, b \in out.ents : a.lane = b.lane => a = b
    /\ out.building \in BOOLEAN

NoSpawn == [ents |-> {}, building |-> FALSE]

\* lanes.sort(() => Math.random() - 0.5): some order of the three lanes
Shuffles == {p \in [1..3 -> Lanes] : \A i, j \in 1..3 : p[i] = p[j] => i = j}

\* a faulty loop body: every entity takes the first lane of the shuffle
DrawnOutcomeOneLane(any, lanes, count, models, dzs, building) ==
    [ents |-> IF any
              THEN {[model |-> models[i], lane |-> lanes[1], dz |-> dzs[i]] :
                    i \in 1..count}
              ELSE {},
     building |-> building]

\* the outcome of one call from its draws: any is Math.random() > 0.3,
\* lanes the shuffled array, count 1 + Math.floor(Math.random() * 2),
\* models[i] the factory the type rolls of the i-th round select, dzs[i]
\* its Math.random() * 10, building the last Math.random() > 0.1
DrawnOutcome(any, lanes, count, models, dzs, building) ==
    [ents |-> IF any
              THEN {[model |-> models[i], lane |-> lanes[i], dz |-> dzs[i]] :
                    i \in 1..count}
              ELSE {},
     building |-> building]

spawnFloorChunk(s, zPos) == [s EXCEPT !.floorChunks = @ \cup {zPos}]

\* a faulty spawnObstacles: without the 5 units behind the chunk's edge
spawnObstaclesAtEdge(s, zPos, out) ==
    LET made == {Entity(a.model, a.lane, zPos - a.dz) : a \in out.ents}
    IN [s EXCEPT !.coins = @ \cup {e \in made : e.type = COIN},
                 !.obstacles = @ \cup {e \in made : e.type # COIN},
                 !.scenery = IF out.building THEN @ \cup {zPos - BUILDING_OFFSET}
                             ELSE @]

spawnObstacles(s, zPos, out) ==
    LET made == {Entity(a.model, a.lane, zPos - a.dz - SPAWN_MIN_OFFSET) : a \in out.ents}
    IN [s EXCEPT !.coins = @ \cup {e \in made : e.type = COIN},
                 !.obstacles = @ \cup {e \in made : e.type # COIN},
                 !.scenery = IF out.building THEN @ \cup {zPos - BUILDING_OFFSET}
                             ELSE @]

-----------------------------------------------------------------------------
(* The loop: one call of loop() with gameActiveRef.current true, step by    *)
(* step in the order of the code.  A step maps the refs to the refs.        *)

\* if (speedRef.current < MAX_SPEED) speedRef.current += 0.00005
SpeedStep(s) ==
    IF FloatLess(s.speed, MAX_SPEED)
    THEN [s EXCEPT !.speed = FloatAdd(s.speed, SPEED_INCREMENT)]
    ELSE s

\* a faulty forward step: the player moved by the base speed
ForwardStepBase(s) == [s EXCEPT !.playerZ = @ - ToFixed(PLAYER_SPEED_BASE)]

\* player.position.z -= speedRef.current
ForwardStep(s) == [s EXCEPT !.playerZ = @ - ToFixed(s.speed)]

\* (targetX - currentLaneX) * LANE_CHANGE_SPEED, rounded to the fixed point
LaneEase(d) == IF d >= 0 THEN (2 * d + 5) \div 10 ELSE -((5 - 2 * d) \div 10)

LaneStep(s) ==
    [s EXCEPT !.currentLaneX = @ + LaneEase(LaneX(s.playerLane) - @)]

\* a faulty landing: the velocity of the fall is kept
JumpStepKeepsVelocity(s) ==
    IF s.isJumping
    THEN LET y == s.playerJumpY + s.playerVelocityY
             v == s.playerVelocityY - GRAVITY
         IN IF y <= 0
            THEN [s EXCEPT !.playerJumpY = 0, !.isJumping = FALSE,
                           !.playerVelocityY = v]
            ELSE [s EXCEPT !.playerJumpY = y, !.playerVelocityY = v]
    ELSE s

\* a faulty landing test: the player lands when it is below the ground
JumpStepBelow(s) ==
    IF s.isJumping
    THEN LET y == s.playerJumpY + s.playerVelocityY
             v == s.playerVelocityY - GRAVITY
         IN IF y < -10000
            THEN [s EXCEPT !.playerJumpY = 0, !.isJumping = FALSE,
                           !.playerVelocityY = 0]
            ELSE [s EXCEPT !.playerJumpY = y, !.playerVelocityY = v]
    ELSE s

\* jump physics
JumpStep(s) ==
    IF s.isJumping
    THEN LET y == s.playerJumpY + s.playerVelocityY
             v == s.playerVelocityY - GRAVITY
         IN IF y <= 0
            THEN [s EXCEPT !.playerJumpY = 0, !.isJumping = FALSE,
                           !.playerVelocityY = 0]
            ELSE [s EXCEPT !.playerJumpY = y, !.playerVelocityY = v]
    ELSE s

\* a faulty slide update: the slide ends when the timer is below 0
SlideStepLate(s) ==
    IF s.isSliding
    THEN IF s.slideTimer - 1 < 0
         THEN [s EXCEPT !.slideTimer = @ - 1, !.isSliding = FALSE,
                        !.collapsed = FALSE, !.bodyY = 0]
         ELSE [s EXCEPT !.slideTimer = @ - 1, !.collapsed = TRUE,
                        !.bodyY = SLIDE_BODY_Y]
    ELSE s

\* sliding: the timer, the collapsed body group, its restoration
SlideStep(s) ==
    IF s.isSliding
    THEN IF s.slideTimer - 1 <= 0
         THEN [s EXCEPT !.slideTimer = @ - 1, !.isSliding = FALSE,
                        !.collapsed = FALSE, !.bodyY = 0]
         ELSE [s EXCEPT !.slideTimer = @ - 1, !.collapsed = TRUE,
                        !.bodyY = SLIDE_BODY_Y]
    ELSE s

\* run animation (bounce and limbs at the clock sample) or the jump pose
AnimationStep(s, frame) ==
    IF ~s.isJumping /\ ~s.isSliding
    THEN [s EXCEPT !.bodyY = Bounce(frame), !.legs = frame]
    ELSE IF s.isJumping THEN [s EXCEPT !.legs = "tucked"]
    ELSE s

CULL_MARGIN == 20 * Unit
LOOK_AHEAD == 120 * Unit

\* const cullZ = player.position.z + 20
CullZ(s) == s.playerZ + CULL_MARGIN

\* a faulty floor filter: without the margin behind the player
FloorCullStepNoMargin(s) ==
    [s EXCEPT !.floorChunks =
        {c \in @ : ~(c - CHUNK_LENGTH \div 2 > s.playerZ - CULL_MARGIN)}]

\* a faulty floor filter: it looks at the far end of the chunk after it
FloorCullStepLate(s) ==
    [s EXCEPT !.floorChunks =
        {c \in @ : ~(c - 2 * CHUNK_LENGTH > CullZ(s))}]

\* floorChunks filter: children[0] is the left grass, at zPos - CHUNK_LENGTH/2
FloorCullStep(s) ==
    [s EXCEPT !.floorChunks =
        {c \in @ : ~(c - CHUNK_LENGTH \div 2 > CullZ(s))}]

\* Math.floor(player.position.z / CHUNK_LENGTH) * CHUNK_LENGTH - 120
NextSpawnZ(s) == (s.playerZ \div CHUNK_LENGTH) * CHUNK_LENGTH - LOOK_AHEAD

\* a faulty spawning step: the boundary is not moved
SpawnStepStuck(s, out) ==
    IF s.lastSpawnZ > NextSpawnZ(s)
    THEN LET z == s.lastSpawnZ - CHUNK_LENGTH
         IN spawnObstacles(spawnFloorChunk(s, z), z, out)
    ELSE s

SpawnStep(s, out) ==
    IF s.lastSpawnZ > NextSpawnZ(s)
    THEN LET z == s.lastSpawnZ - CHUNK_LENGTH
         IN [spawnObstacles(spawnFloorChunk(s, z), z, out) EXCEPT !.lastSpawnZ = z]
    ELSE s

\* the coins the filter callback has turned by 0.05
Turned(c) == [c EXCEPT !.spin = @ + 1]

\* the collectibles whose box meets the player's in this tick
Collected(s, glow) ==
    {c \in s.coins : intersectsBox(CoinBox(Turned(c), glow), PlayerBox(s))}

\* a faulty collectible pass: a bone culled behind the player scores too
CoinStepCullScores(r, glow) ==
    LET s == r.g
        got == Collected(s, glow)
        gone == {c \in s.coins \ got : c.z > CullZ(s)}
        n == Cardinality(got)
    IN [g |-> [s EXCEPT !.score = @ + COIN_REWARD * (n + Cardinality(gone)),
                        !.coins = {Turned(c) : c \in (s.coins \ got) \ gone}],
        e |-> [r.e EXCEPT !.scoreUpdate = @ + n, !.coin = @ + n,
                          !.taken = @ \cup {<<c.lane, c.z>> : c \in got}]]

\* a faulty collectible pass: a collection empties the whole array
CoinStepAll(r, glow) ==
    LET s == r.g
        got == Collected(s, glow)
        n == Cardinality(got)
        kept == IF n > 0 THEN {}
                ELSE {Turned(c) : c \in {c \in s.coins : ~(c.z > CullZ(s))}}
    IN [g |-> [s EXCEPT !.score = @ + COIN_REWARD * n, !.coins = kept],
        e |-> [r.e EXCEPT !.scoreUpdate = @ + n, !.coin = @ + n,
                          !.taken = @ \cup {<<c.lane, c.z>> : c \in got}]]

\* coinsRef.current.filter: collect, else cull behind cullZ, else keep
CoinStep(r, glow) ==
    LET s == r.g
        got == Collected(s, glow)
        n == Cardinality(got)
        kept == {Turned(c) : c \in {c \in s.coins \ got : ~(c.z > CullZ(s))}}
    IN [g |-> [s EXCEPT !.score = @ + COIN_REWARD * n, !.coins = kept],
        e |-> [r.e EXCEPT !.scoreUpdate = @ + n, !.coin = @ + n,
                          !.taken = @ \cup {<<c.lane, c.z>> : c \in got}]]

LOW_CLEARANCE == 24000
HIGH_CEILING == 20000

\* two faulty verdicts: a low obstacle cleared by any height above the
\* ground, a high obstacle cleared without the test of the sliding flag
IsHitAnyHeight(s, o) ==
    /\ ~(o.type = OBSTACLE_LOW /\ s.playerJumpY > 0)
    /\ ~(o.type = OBSTACLE_HIGH /\ s.isSliding /\ s.playerJumpY < HIGH_CEILING)

IsHitNoSlideTest(s, o) ==
    /\ ~(o.type = OBSTACLE_LOW /\ s.playerJumpY > LOW_CLEARANCE)
    /\ ~(o.type = OBSTACLE_HIGH /\ s.playerJumpY < HIGH_CEILING)

\* the verdict of the forEach callback for an obstacle that intersects:
\* relativePlayerY = player.position.y - o.position.y, o.position.y = 0
IsHit(s, o) ==
    LET relativePlayerY == s.playerJumpY
    IN /\ ~(o.type = OBSTACLE_LOW /\ relativePlayerY > LOW_CLEARANCE)
       /\ ~(o.type = OBSTACLE_HIGH /\ s.isSliding /\ relativePlayerY < HIGH_CEILING)

Intersecting(s) ==
    {o \in s.obstacles : intersectsBox(ObstacleBox(o), PlayerBox(s))}

\* the refs with the player where it was before the forward step
BeforeMove(s) == [s EXCEPT !.playerZ = @ + ToFixed(s.speed)]

\* a faulty obstacle pass: it tests the position of the tick before
HitsBeforeMove(s) ==
    {o \in s.obstacles :
        /\ intersectsBox(ObstacleBox(o), PlayerBox(BeforeMove(s)))
        /\ IsHit(s, o)}

\* the obstacles for which the callback runs its if (hit) block
Hits(s) == {o \in Intersecting(s) : IsHit(s, o)}

\* a faulty obstacle pass: the run stopped, onGameOver not called
ObstacleStepSilent(r) ==
    LET s == r.g
        n == Cardinality(Hits(s))
    IN IF n = 0 THEN r
       ELSE [g |-> [s EXCEPT !.gameActive = FALSE],
             e |-> [r.e EXCEPT !.crash = @ + n, !.whine = @ + n]]

\* obstaclesRef.current.forEach: for every hit the crash and whine cues,
\* onGameOver(scoreRef.current), gameActiveRef.current = false
ObstacleStep(r) ==
    LET s == r.g
        n == Cardinality(Hits(s))
    IN IF n = 0 THEN r
       ELSE [g |-> [s EXCEPT !.gameActive = FALSE],
             e |-> [r.e EXCEPT !.crash = @ + n, !.whine = @ + n,
                               !.gameOver = @ + n, !.gameOverScore = s.score]]

\* a faulty end of the active branch: the obstacles are never filtered
EntityCullStepScenery(s) ==
    [s EXCEPT !.scenery = {z \in @ : z <= CullZ(s)}]

\* the two filters that end the active branch
EntityCullStep(s) ==
    [s EXCEPT !.obstacles = {o \in @ : o.z <= CullZ(s)},
              !.scenery = {z \in @ : z <= CullZ(s)}]

\* the element of a one-element set
The(S) == CHOOSE x \in S : TRUE

\* the active branch of loop(): frame is the sample of Date.now() the run
\* animation sees, glow the one the bones' glow sees, out what
\* Math.random() decides if a chunk is spawned.  Every statement works on
\* the value the one before has left: read from the innermost set outwards
ActiveTick(s, frame, glow, out) ==
    The({[g |-> EntityCullStep(judged.g), e |-> judged.e] :
         judged \in {ObstacleStep(collected) :
         collected \in {CoinStep([g |-> spawned, e |-> NoEvents], glow) :
         spawned \in {SpawnStep(culled, out) :
         culled \in {FloorCullStep(animated) :
         animated \in {AnimationStep(slid, frame) :
         slid \in {SlideStep(jumped) :
         jumped \in {JumpStep(eased) :
         eased \in {LaneStep(moved) :
         moved \in {ForwardStep(faster) :
         faster \in {SpeedStep(s)}}}}}}}}}}})

\* loop(): the inactive branch only turns the player and wags the tail
loop(s, frame, glow, out) ==
    IF s.gameActive THEN ActiveTick(s, frame, glow, out)
    ELSE [g |-> s, e |-> NoEvents]

-----------------------------------------------------------------------------
(* src/App.tsx: gameState and score of the presentation layer, and the      *)
(* effect of GameCanvas that follows every change of gameState:             *)
(* gameActiveRef.current = (gameState === PLAYING), resetGame() on MENU.    *)

MENU == "MENU"
PLAYING == "PLAYING"
GAME_OVER == "GAME_OVER"

\* a faulty effect: the menu entered without the reset
gameStateEffectNoReset(s, gameState) ==
    [s EXCEPT !.gameActive = (gameState = PLAYING)]

\* useEffect(..., [gameState])
gameStateEffect(s, gameState) ==
    LET t == [s EXCEPT !.gameActive = (gameState = PLAYING)]
    IN IF gameState = MENU THEN resetGame(t) ELSE t

\* a faulty handleGameOver: the score shown before the tick is kept
PresentedStale(a, s, e) ==
    IF e.gameOver > 0 THEN [gameState |-> GAME_OVER, score |-> a.score]
    ELSE IF e.scoreUpdate > 0 THEN [a EXCEPT !.score = s.score]
    ELSE a

\* handleGameOver(finalScore) and setScore as onScoreUpdate, applied to
\* what a tick emitted
Presented(a, s, e) ==
    IF e.gameOver > 0 THEN [gameState |-> GAME_OVER, score |-> e.gameOverScore]
    ELSE IF e.scoreUpdate > 0 THEN [a EXCEPT !.score = s.score]
    ELSE a

-----------------------------------------------------------------------------
(* generateMission and the mission state of App.  A response is what the    *)
(* awaited generateContent call comes to: it throws, or it returns an       *)
(* object whose text is undefined (here ""), or a string.                   *)

\* the fallback of the catch block (description in ASCII)
FALLBACK_MISSION ==
    [title |-> "Routine-Patrouille",
     description |-> "Buergermeister Besserwisser treibt wieder sein Unwesen! Halte die Stadt sicher."]

MISSION_TEXT == "{\"title\":\"Katze in Not\",\"description\":\"Rette Cali vom Baum.\"}"
TRUNCATED_TEXT == "{\"title\":\"Katze in N"
PLAIN_TEXT == "Auf zur Mission!"

\* JSON.parse(text): the value, or a SyntaxError thrown
JSONparse(text) ==
    IF text = MISSION_TEXT
    THEN [threw |-> FALSE,
          value |-> [title |-> "Katze in Not",
                     description |-> "Rette Cali vom Baum."]]
    ELSE [threw |-> TRUE, value |-> [title |-> "", description |-> ""]]

Responses ==
    {[threw |-> TRUE, text |-> ""]} \cup
    {[threw |-> FALSE, text |-> t] :
        t \in {"", PLAIN_TEXT, TRUNCATED_TEXT, MISSION_TEXT}}

\* a faulty generateMission: the parse outside the try block
generateMissionParseOutside(response) ==
    IF response.threw \/ response.text = ""
    THEN [rejected |-> FALSE, value |-> FALLBACK_MISSION]
    ELSE [rejected |-> JSONparse(response.text).threw,
          value |-> JSONparse(response.text).value]

\* how the promise of generateMission() settles on a response
generateMission(response) ==
    IF response.threw \/ response.text = "" \/ JSONparse(response.text).threw
    THEN [rejected |-> FALSE, value |-> FALLBACK_MISSION]
    ELSE [rejected |-> FALSE, value |-> JSONparse(response.text).value]

\* App after the mount effect has called loadMission: mission is null (no
\* mission), the flag is set and one call of generateMission is awaited
Loading == [mission |-> {}, isLoadingMission |-> TRUE, calls |-> 1]

-----------------------------------------------------------------------------
(* AudioService.  ctx is whether the AudioContext exists, musicOscillators  *)
(* the length of the array, timers the number of setTimeout callbacks of    *)
(* playThemeLoop that are pending (nothing ever clears one).                *)

\* the notes of the theme with a frequency: one oscillator each
NOTES == 7

\* the audioManager as constructed
Silent ==
    [ctx |-> FALSE, isMusicPlaying |-> FALSE, musicOscillators |-> 0,
     timers |-> 0]

\* init(): the context is created on the first call
init(a) == [a EXCEPT !.ctx = TRUE]

\* playThemeLoop(): the oscillators of one pass through the theme, and
\* the timer that calls it again
playThemeLoop(a) ==
    IF ~a.ctx \/ ~a.isMusicPlaying THEN a
    ELSE [a EXCEPT !.musicOscillators = @ + NOTES, !.timers = @ + 1]

startMusic(a) ==
    LET b == init(a)
    IN IF b.isMusicPlaying \/ ~b.ctx THEN b
       ELSE playThemeLoop([b EXCEPT !.isMusicPlaying = TRUE])

stopMusic(a) == [a EXCEPT !.isMusicPlaying = FALSE, !.musicOscillators = 0]

\* playJump, playSlide, playCoin, playCrash and playWhine begin with init()
Heard(a, e) ==
    IF e.jump + e.slide + e.coin + e.crash + e.whine > 0 THEN init(a) ELSE a

\* what the gameState effect does with the audioManager
gameStateEffectMusic(a, gameState) ==
    IF gameState = MENU THEN stopMusic(a)
    ELSE IF gameState = PLAYING THEN startMusic(a)
    ELSE a

-----------------------------------------------------------------------------
(* The system: the presentation layer's buttons, the keyboard and the       *)
(* animation frames.  pressed is the key the last step handled ("" when the *)
(* step was no key press).  run counts, since the last start or reset, the  *)
(* active ticks taken, the lane changes accepted, the calls of onGameOver,  *)
(* the bones collected, the jumps and the slides that a tick has ended, and *)
(* counts the starts since mounting.  host is  *)
(* what the component holds of the window: whether it is mounted, its two   *)
(* listeners, frameIdRef.current and the animation frame requests pending.  *)
(* briefing is App's mission, its isLoadingMission flag and the number of   *)
(* calls of generateMission that are awaited.  audio is the audioManager    *)
(* and the loop timers it has armed that have not fired yet.                *)

\* 1 when a tick has cleared a pose flag
Ended(before, after) == IF before /\ ~after THEN 1 ELSE 0

NewRun == [ticks |-> 0, laneChanges |-> 0, gameOvers |-> 0, taken |-> {},
           landed |-> 0, rose |-> 0, starts |-> 0]

\* the mount effect has added the resize and keydown listeners and called
\* startLoop, whose first loop() has requested the next frame
FIRST_FRAME == 1

Listening ==
    [mounted |-> TRUE, resize |-> TRUE, keydown |-> TRUE,
     frameId |-> FIRST_FRAME, requested |-> {FIRST_FRAME}]

\* the state when the component has mounted: both effects have run
Init ==
    /\ game = gameStateEffect(Mounted, MENU)
    /\ app = [gameState |-> MENU, score |-> 0]
    /\ ev = NoEvents
    /\ pressed = ""
    /\ run = NewRun
    /\ host = Listening
    /\ briefing = Loading
    /\ audio = gameStateEffectMusic(Silent, MENU)

\* onStart -> handleStartGame, then the gameState effect
StartGame ==
    /\ host.mounted
    /\ app.gameState = MENU
    /\ app' = [gameState |-> PLAYING, score |-> 0]
    /\ game' = gameStateEffect(game, PLAYING)
    /\ ev' = NoEvents
    /\ pressed' = ""
    /\ run' = [NewRun EXCEPT !.starts = run.starts + 1]
    /\ audio' = gameStateEffectMusic(audio, PLAYING)
    /\ UNCHANGED <<host, briefing>>

\* onRestart -> handleRestart, then the gameState effect
Restart ==
    /\ host.mounted
    /\ app.gameState = GAME_OVER
    /\ app' = [app EXCEPT !.gameState = MENU]
    /\ game' = gameStateEffect(game, MENU)
    /\ ev' = NoEvents
    /\ pressed' = ""
    /\ run' = [NewRun EXCEPT !.starts = run.starts]
    /\ briefing' = [briefing EXCEPT !.isLoadingMission = TRUE,
                                     !.calls = @ + 1]
    /\ audio' = gameStateEffectMusic(audio, MENU)
    /\ UNCHANGED host

\* an awaited generateMission() settles on a response: loadMission or
\* handleRestart goes on with setMission and setIsLoadingMission(false),
\* or ends there when the promise was rejected
MissionSettles(response) ==
    \E promise \in {generateMission(response)} :
       /\ briefing.calls > 0
       /\ briefing' = IF promise.rejected
                      THEN [briefing EXCEPT !.calls = @ - 1]
                      ELSE [mission |-> {promise.value},
                            isLoadingMission |-> FALSE,
                            calls |-> briefing.calls - 1]
       /\ ev' = NoEvents
       /\ pressed' = ""
       /\ UNCHANGED <<game, app, run, host, audio>>

\* onKeyDown -> handleInput(e.key), while the listener is registered; the
\* player presses no key during the first `quiet` ticks of the first run
\* and changes lane at most `maxChanges` times in a run
KeyDown(k, quiet, maxChanges) ==
    \E r \in {handleInput(game, k)} :
    \E changes \in {IF r.g.playerLane # game.playerLane THEN 1 ELSE 0} :
       /\ host.keydown
       /\ (game.gameActive /\ run.starts = 1) => run.ticks >= quiet
       /\ run.laneChanges + changes <= maxChanges
       /\ game' = r.g
       /\ ev' = r.e
       /\ pressed' = k
       /\ run' = [run EXCEPT !.laneChanges = @ + changes]
       /\ audio' = Heard(audio, r.e)
       /\ UNCHANGED <<app, host, briefing>>

\* one animation frame: the window runs a pending request, whose callback
\* is loop(): frameIdRef.current = requestAnimationFrame(loop), id being
\* the handle returned (any handle that names no pending request), then
\* the branches of loop(), and what the props it called did in App
\* followed by the gameState effect when gameState changed
Tick(frame, glow, out, maxTicks, id) ==
    /\ game.gameActive => run.ticks < maxTicks
    /\ \E due \in host.requested :
          /\ id \notin host.requested \ {due}
          /\ host' = [host EXCEPT !.frameId = id,
                                  !.requested = (@ \ {due}) \cup {id}]
    /\ \E r \in {loop(game, frame, glow, out)} :
       \E shown \in {Presented(app, r.g, r.e)} :
       /\ game' = IF shown.gameState = app.gameState THEN r.g
                  ELSE gameStateEffect(r.g, shown.gameState)
       /\ app' = shown
       /\ audio' = IF shown.gameState = app.gameState THEN Heard(audio, r.e)
                   ELSE gameStateEffectMusic(Heard(audio, r.e), shown.gameState)
       /\ ev' = r.e
       /\ pressed' = ""
       /\ run' = IF game.gameActive
                 THEN [run EXCEPT !.ticks = @ + 1,
                                  !.gameOvers = @ + r.e.gameOver,
                                  !.taken = @ \cup r.e.taken,
                                  !.landed = @ + Ended(game.isJumping, r.g.isJumping),
                                  !.rose = @ + Ended(game.isSliding, r.g.isSliding)]
                 ELSE run
    /\ UNCHANGED briefing

\* a faulty cleanup: the listeners removed, the pending frame left
UnmountKeepsLoop ==
    /\ host.mounted
    /\ host' = [host EXCEPT !.mounted = FALSE, !.resize = FALSE,
                            !.keydown = FALSE]
    /\ ev' = NoEvents
    /\ pressed' = ""
    /\ audio' = stopMusic(audio)
    /\ UNCHANGED <<game, app, run, briefing>>

\* the cleanup of the mount effect: removeEventListener twice, then
\* cancelAnimationFrame(frameIdRef.current) and audioManager.stopMusic()
Unmount ==
    /\ host.mounted
    /\ host' = [host EXCEPT !.mounted = FALSE, !.resize = FALSE,
                            !.keydown = FALSE,
                            !.requested = @ \ {host.frameId}]
    /\ ev' = NoEvents
    /\ pressed' = ""
    /\ audio' = stopMusic(audio)
    /\ UNCHANGED <<game, app, run, briefing>>

\* a loop timer fires: the callback playThemeLoop() has handed to
\* setTimeout runs, and calls playThemeLoop() if isMusicPlaying; the
\* theme is followed for `maxLoops` passes
LoopTimerFires(maxLoops) ==
    /\ audio.timers > 0
    /\ audio.musicOscillators < maxLoops * NOTES
    /\ \E a \in {[audio EXCEPT !.timers = @ - 1]} :
          audio' = IF a.isMusicPlaying THEN playThemeLoop(a) ELSE a
    /\ ev' = NoEvents
    /\ pressed' = ""
    /\ UNCHANGED <<game, app, run, host, briefing>>

-----------------------------------------------------------------------------
(* Spec: play around the first spawned chunk.  The chunk receives one of    *)
(* three outcomes of spawnObstacles, the later chunks nothing; the player   *)
(* presses nothing for QuietTicks ticks (the approach), the run is followed *)
(* for KeyWindow ticks more, and a run after a restart for RerunTicks.      *)

QuietTicks == 612
KeyWindow == 7
MaxLaneChanges == 1
RerunTicks == 3

TwoBones ==
    [ents |-> {[model |-> "bone", lane |-> LaneCenter, dz |-> 0],
               [model |-> "bone", lane |-> LaneRight, dz |-> 40000]},
     building |-> TRUE]
CarAhead ==
    [ents |-> {[model |-> "car", lane |-> LaneCenter, dz |-> 30200]},
     building |-> FALSE]
BusAndBridge ==
    [ents |-> {[model |-> "bus", lane |-> LaneCenter, dz |-> 50000],
               [model |-> "bridge", lane |-> LaneLeft, dz |-> 0]},
     building |-> TRUE]
Scenarios == {TwoBones, CarAhead, BusAndBridge}

\* the outcomes of spawnObstacles explored: the first chunk spawned after
\* a reset receives one of `first`, the later ones nothing
SpawnChoices(s, first) ==
    IF s.lastSpawnZ = INITIAL_SPAWN_Z
    THEN {out \in first : IsSpawnOutcome(out)}
    ELSE {NoSpawn}

Keys == {"a", "D", "w", "ArrowDown", "x"}
Frames == {"f0", "f1"}
Glows == {"narrow", "wide"}

\* the handles requestAnimationFrame returns when every request is run
\* before the next is made: the handle just run is free again
OneFrameId == {FIRST_FRAME}

TickLimit == IF run.starts = 1 THEN QuietTicks + KeyWindow ELSE RerunTicks

Next ==
    \/ StartGame
    \/ Restart
    \/ \E k \in Keys : KeyDown(k, QuietTicks, MaxLaneChanges)
    \/ \E frame \in Frames, glow \in Glows, out \in SpawnChoices(game, Scenarios) :
          \E id \in OneFrameId : Tick(frame, glow, out, TickLimit, id)

Spec == Init /\ [][Next]_vars

-----------------------------------------------------------------------------
(* LongRun: one uninterrupted run in the centre lane, every chunk receiving *)
(* a car in the left lane, a bone in the right lane and a building.         *)

LongTicks == 7002

Crowded ==
    [ents |-> {[model |-> "car", lane |-> LaneLeft, dz |-> 0],
               [model |-> "bone", lane |-> LaneRight, dz |-> 199999]},
     building |-> TRUE]

LongNext ==
    \/ StartGame
    \/ \E out \in {o \in {Crowded} : IsSpawnOutcome(o)} :
          \E id \in OneFrameId : Tick("f0", "wide", out, LongTicks, id)

LongRun == Init /\ [][LongNext]_vars

-----------------------------------------------------------------------------
(* Spawning: a run in the centre lane with no key pressed, up to the first  *)
(* ticks after the first call of spawnObstacles, which draws freely: any    *)
(* shuffle, either count, any factory and one of DrawnOffsets per entity.   *)

SpawnTicks == 83
DrawnOffsets == {0, 199999}

Draws ==
    {DrawnOutcome(any, lanes, count, models, dzs, building) :
        any \in BOOLEAN, lanes \in Shuffles, count \in 1..2,
        models \in [1..2 -> Models], dzs \in [1..2 -> DrawnOffsets],
        building \in BOOLEAN}

SpawningNext ==
    \/ StartGame
    \/ \E frame \in Frames :
       \E out \in IF game.lastSpawnZ = INITIAL_SPAWN_Z THEN Draws ELSE {NoSpawn} :
       \E id \in OneFrameId : Tick(frame, "wide", out, SpawnTicks, id)

Spawning == Init /\ [][SpawningNext]_vars

-----------------------------------------------------------------------------
(* Briefing: runs in the centre lane with no key pressed that end on a car  *)
(* in the first chunk spawned, restarts, and the mission requests, which    *)
(* settle on any of Responses at any time.  Every request settles.          *)

BriefTicks == 620
BriefStarts == 2

MissionArrives == \E response \in Responses : MissionSettles(response)

BriefNext ==
    \/ (run.starts < BriefStarts /\ StartGame)
    \/ Restart
    \/ \E out \in SpawnChoices(game, {CarAhead}) :
          \E id \in OneFrameId : Tick("f0", "wide", out, BriefTicks, id)
    \/ MissionArrives

Briefing == Init /\ [][BriefNext]_vars /\ WF_vars(MissionArrives)

-----------------------------------------------------------------------------
(* Music: the runs of Briefing with the start button enabled only when no   *)
(* mission is loading, as the menu has it, and the loop timers of the       *)
(* theme firing at any time.                                                *)

MusicStarts == 2
MaxLoops == 3

MusicNext ==
    \/ (~briefing.isLoadingMission /\ run.starts < MusicStarts /\ StartGame)
    \/ Restart
    \/ \E out \in SpawnChoices(game, {CarAhead}) :
          \E id \in OneFrameId : Tick("f0", "wide", out, BriefTicks, id)
    \/ MissionArrives
    \/ LoopTimerFires(MaxLoops)

Music == Init /\ [][MusicNext]_vars

-----------------------------------------------------------------------------
(* Keyboard: the first ticks of a run on an empty road, with every key      *)
(* identifier of AllKeys pressed at any time, in any order.                 *)

KeyTicks == 3
KeyChanges == 2

AllKeys ==
    {"a", "A", "ArrowLeft", "d", "D", "ArrowRight", "w", "W", "ArrowUp", " ",
     "s", "S", "ArrowDown", "x", "X", "Enter"}

KeyboardNext ==
    \/ StartGame
    \/ \E k \in AllKeys : KeyDown(k, 0, KeyChanges)
    \/ \E id \in OneFrameId : Tick("f0", "wide", NoSpawn, KeyTicks, id)

Keyboard == Init /\ [][KeyboardNext]_vars

-----------------------------------------------------------------------------
(* Poses: a run in the centre lane on an empty road, long enough for a jump *)
(* and for a slide to end, with a jump key and a slide key pressed at any   *)
(* time.                                                                    *)

PoseTicks == 90
PoseKeys == {"w", "ArrowDown"}

PosesNext ==
    \/ StartGame
    \/ \E k \in PoseKeys : KeyDown(k, 0, 0)
    \/ \E frame \in Frames :
       \E id \in OneFrameId : Tick(frame, "wide", NoSpawn, PoseTicks, id)

Poses == Init /\ [][PosesNext]_vars

-----------------------------------------------------------------------------
(* Harvest: a run that starts in the centre lane.  The first chunk spawned  *)
(* receives a bone in the centre lane and one in the right lane, the third  *)
(* a car in the centre lane, or a bridge over the centre lane with a bone   *)
(* beside it in the right lane, the others nothing.  No key is pressed for     *)
(* HarvestQuiet ticks, the run is followed for HarvestWindow ticks more,    *)
(* and a run after a restart for RerunTicks.                                *)

HarvestQuiet == 740
HarvestWindow == 25
HarvestKeys == {"w", "d"}

BridgeAndBone ==
    [ents |-> {[model |-> "bridge", lane |-> LaneCenter, dz |-> 30200],
               [model |-> "bone", lane |-> LaneRight, dz |-> 30200]},
     building |-> FALSE]

HarvestChoices(s) ==
    IF s.lastSpawnZ = INITIAL_SPAWN_Z
    THEN {out \in {TwoBones} : IsSpawnOutcome(out)}
    ELSE IF s.lastSpawnZ = INITIAL_SPAWN_Z - 2 * CHUNK_LENGTH
    THEN {out \in {CarAhead, BridgeAndBone} : IsSpawnOutcome(out)}
    ELSE {NoSpawn}

HarvestLimit ==
    IF run.starts = 1 THEN HarvestQuiet + HarvestWindow ELSE RerunTicks

HarvestNext ==
    \/ StartGame
    \/ Restart
    \/ \E k \in HarvestKeys : KeyDown(k, HarvestQuiet, MaxLaneChanges)
    \/ \E out \in HarvestChoices(game) :
          \E id \in OneFrameId : Tick("f0", "wide", out, HarvestLimit, id)

Harvest == Init /\ [][HarvestNext]_vars

-----------------------------------------------------------------------------
(* Course: runs in the centre lane with no key pressed.  The first chunk    *)
(* spawned receives a bone in the centre lane or nothing, the second a car  *)
(* in the centre lane at one of CarOffsets, the later ones nothing.  The    *)
(* window keeps running the frames it is asked for.                         *)

CourseTicks == 760
MaxStarts == 1

BoneFirst ==
    [ents |-> {[model |-> "bone", lane |-> LaneCenter, dz |-> 0]},
     building |-> TRUE]

CarOffsets == {0, 199999}

CarSecond(dz) ==
    [ents |-> {[model |-> "car", lane |-> LaneCenter, dz |-> dz]},
     building |-> FALSE]

CourseChoices(s) ==
    IF s.lastSpawnZ = INITIAL_SPAWN_Z
    THEN {out \in {BoneFirst, NoSpawn} : IsSpawnOutcome(out)}
    ELSE IF s.lastSpawnZ = INITIAL_SPAWN_Z - CHUNK_LENGTH
    THEN {out \in {CarSecond(dz) : dz \in CarOffsets} : IsSpawnOutcome(out)}
    ELSE {NoSpawn}

CourseTick ==
    \E frame \in Frames, glow \in Glows, out \in CourseChoices(game) :
       \E id \in OneFrameId : Tick(frame, glow, out, CourseTicks, id)

CourseNext ==
    \/ run.starts < MaxStarts /\ StartGame
    \/ Restart
    \/ CourseTick

Course == Init /\ [][CourseNext]_vars /\ WF_vars(CourseTick)

-----------------------------------------------------------------------------
(* Lifecycle: the first ticks of a run with any key at any time, the        *)
(* window handing out either of two frame handles, and the component        *)
(* unmounted at any point between two callbacks (a callback runs to its     *)
(* end before the next event is taken).                                     *)

LifeTicks == 6
FrameIds == {FIRST_FRAME, FIRST_FRAME + 1}

LifeNext ==
    \/ StartGame
    \/ \E k \in Keys : KeyDown(k, 0, MaxLaneChanges)
    \/ \E frame \in Frames, id \in FrameIds :
          Tick(frame, "wide", NoSpawn, LifeTicks, id)
    \/ Unmount

Lifecycle == Init /\ [][LifeNext]_vars

-----------------------------------------------------------------------------
(* Properties.  A step that starts with the run active, handles no key and  *)
(* leaves the component mounted is an active tick (StartGame and Restart    *)
(* start with the run inactive).                                            *)

ActiveTickStep == game.gameActive /\ pressed' = "" /\ host'.mounted

LeftKeys == {"a", "A", "ArrowLeft"}
RightKeys == {"d", "D", "ArrowRight"}

\* C1: in every run onGameOver is invoked exactly once if an unavoided
\* obstacle intersection occurred (the run has ended in GAME_OVER) and
\* never otherwise, also when several obstacles are hit in one tick
OnGameOverExactlyOnce ==
    run.gameOvers = IF app.gameState = GAME_OVER THEN 1 ELSE 0

\* C2: the jumping flag and the sliding flag are never both set
PoseExclusive == ~(game.isJumping /\ game.isSliding)

\* a jump key has been handled in the middle of a slide
PoseExclusiveWitness ==
    /\ pressed = "w" /\ game.isSliding
    /\ game.slideTimer < SLIDE_TICKS /\ game.slideTimer > 0

\* C3: the target lane stays in {0, 1, 2}; while the run is active a
\* lane-left or lane-right key moves it by one at once, whatever the pose,
\* except that lane-left at lane 0 and lane-right at lane 2 leave it
\* alone; no other key moves it
LaneInputs ==
    [][/\ game.playerLane \in Lanes
       /\ game'.playerLane \in Lanes
       /\ (game.gameActive /\ pressed' # "") =>
             game'.playerLane =
                IF pressed' \in LeftKeys
                THEN (IF game.playerLane = LaneLeft THEN LaneLeft
                      ELSE game.playerLane - 1)
                ELSE IF pressed' \in RightKeys
                THEN (IF game.playerLane = LaneRight THEN LaneRight
                      ELSE game.playerLane + 1)
                ELSE game.playerLane]_vars

\* lane-left handled as a no-op at lane 0, in the middle of a slide
LaneInputsWitness ==
    /\ pressed = "a" /\ ev.slide = 0 /\ game.gameActive
    /\ game.playerLane = LaneLeft /\ game.isSliding

\* C4: speed is never below the base value and never above the maximum
\* (it starts at the base, rises by the increment while below the maximum)
SpeedInRange ==
    /\ ~FloatLess(game.speed, PLAYER_SPEED_BASE)
    /\ ~FloatLess(MAX_SPEED, game.speed)

\* C5: an active tick moves the forward position by exactly the speed the
\* tick leaves, always in the same direction; a tick of an inactive run
\* does not move it
ForwardAdvance ==
    [][/\ ActiveTickStep =>
            /\ game'.playerZ = game.playerZ - ToFixed(game'.speed)
            /\ game'.playerZ < game.playerZ
       /\ (~game.gameActive /\ pressed' = "" /\ app'.gameState = app.gameState) =>
            game'.playerZ = game.playerZ]_vars

\* two active ticks have moved the player by 0.25005 and 0.2501
ForwardAdvanceWitness ==
    /\ game.gameActive /\ run.ticks = 2
    /\ game.playerZ = -(5001 + 5002)

\* C6: at the end of every tick there are at most 9 floor segments, at
\* most 18 obstacles plus collectibles and at most 9 scenery objects
EntitiesBounded ==
    /\ Cardinality(game.floorChunks) <= 9
    /\ Cardinality(game.obstacles) + Cardinality(game.coins) <= 18
    /\ Cardinality(game.scenery) <= 9

\* far into a run all three sets are at their bounds
EntitiesBoundedWitness ==
    /\ game.playerZ < -(100 * CHUNK_LENGTH)
    /\ Cardinality(game.floorChunks) = 9
    /\ Cardinality(game.obstacles) + Cardinality(game.coins) = 18
    /\ Cardinality(game.scenery) = 9

\* the collectibles of the array whose box, turned by this tick, meets the
\* box of the player where the tick has put it
Met(glow) ==
    {c \in game.coins : intersectsBox(CoinBox(Turned(c), glow), PlayerBox(game'))}

\* C7: an active tick adds exactly 10 to the score for every collectible
\* that meets the player, takes these and only these out of the array
\* (but for what lies behind the cull line), leaves the obstacles and the
\* scenery to their own cull; a collected bone is never in the array again
CoinCollection ==
    /\ [](\A c \in game.coins : <<c.lane, c.z>> \notin run.taken)
    /\ [][ActiveTickStep =>
            \E glow \in Glows :
               /\ game'.score = game.score + 10 * Cardinality(Met(glow))
               /\ ev'.taken = {<<c.lane, c.z>> : c \in Met(glow)}
               /\ \A c \in Met(glow) : Turned(c) \notin game'.coins
               /\ \A c \in game.coins \ Met(glow) :
                     c.z <= CullZ(game') => Turned(c) \in game'.coins
               /\ \A o \in game.obstacles :
                     o.z <= CullZ(game') => o \in game'.obstacles
               /\ \A z \in game.scenery :
                     z <= CullZ(game') => z \in game'.scenery]_vars

\* one of two bones has just been collected
CoinCollectionWitness ==
    /\ ev.coin = 1 /\ game.score = 10 /\ app.score = 10
    /\ Cardinality(game.coins) = 1 /\ Cardinality(run.taken) = 1

\* the obstacles whose box meets the player's where the tick has put both
Touched ==
    {o \in game'.obstacles : intersectsBox(ObstacleBox(o), PlayerBox(game'))}

RunEnded == ~game'.gameActive /\ ev'.gameOver > 0 /\ app'.gameState = GAME_OVER
RunGoesOn == game'.gameActive /\ ev'.gameOver = 0 /\ app'.gameState = PLAYING

\* C8: a tick in which the player meets low obstacles (and no other) does
\* not end the run if the pose is Jumping with the vertical offset above
\* 1.2, and ends it in every other case
LowObstacleRule ==
    [][(ActiveTickStep /\ Touched # {}
        /\ \A o \in Touched : o.type = OBSTACLE_LOW) =>
          IF game'.isJumping /\ game'.playerJumpY > LOW_CLEARANCE
          THEN RunGoesOn ELSE RunEnded]_vars

\* the player is over a car it meets, above the clearance, the run active
LowObstacleRuleWitness ==
    /\ game.gameActive /\ pressed = "" /\ game.isJumping
    /\ game.playerJumpY > LOW_CLEARANCE
    /\ \E o \in game.obstacles :
          /\ o.type = OBSTACLE_LOW
          /\ intersectsBox(ObstacleBox(o), PlayerBox(game))

\* C9: a tick in which the player meets high obstacles (and no other) does
\* not end the run if and only if the pose is Sliding (the vertical offset
\* is then below 1.0)
HighObstacleRule ==
    [][(ActiveTickStep /\ Touched # {}
        /\ \A o \in Touched : o.type = OBSTACLE_HIGH) =>
          IF game'.isSliding
          THEN game'.playerJumpY < HIGH_CEILING /\ RunGoesOn
          ELSE RunEnded]_vars

\* the player slides under a bus or a bridge it meets, the run active
HighObstacleRuleWitness ==
    /\ game.gameActive /\ pressed = "" /\ game.isSliding
    /\ \E o \in game.obstacles :
          /\ o.type = OBSTACLE_HIGH
          /\ intersectsBox(ObstacleBox(o), PlayerBox(game))

\* C10: while the run is inactive (after a collision, in the menu) a tick
\* or a key changes no ref and no array, emits no cue and calls no prop
Frozen ==
    [][(~game.gameActive /\ app'.gameState = app.gameState) =>
          /\ game' = game
          /\ ev' = NoEvents
          /\ app' = app]_vars

\* a lane key has been handled after the collision, the lane is the same
FrozenWitness ==
    /\ app.gameState = GAME_OVER /\ pressed = "a"
    /\ game.playerLane = LaneCenter /\ game.playerZ < 0
    /\ ~game.isJumping /\ ~game.isSliding

\* what a reset is to leave: score 0, base speed, centre lane, lateral
\* position 0, neither pose flag set, vertical offset and velocity 0,
\* forward position 0, no obstacle, collectible or scenery, the eight
\* segments at depths 0 to -140 and the spawn boundary at -140
IsFresh(s) ==
    /\ s.score = 0
    /\ s.speed = PLAYER_SPEED_BASE
    /\ s.playerLane = LaneCenter
    /\ s.currentLaneX = 0
    /\ ~s.isJumping /\ ~s.isSliding
    /\ s.playerJumpY = 0 /\ s.playerVelocityY = 0
    /\ s.playerZ = 0
    /\ s.obstacles = {} /\ s.coins = {} /\ s.scenery = {}
    /\ s.floorChunks = {-(d * Unit) : d \in {0, 20, 40, 60, 80, 100, 120, 140}}
    /\ Cardinality(s.floorChunks) = 8
    /\ s.lastSpawnZ = -(140 * Unit)

\* C11: resetGame applied to any reachable state (in the air, in a slide,
\* after a collision) yields the fresh state, and applied to its own
\* result yields that result again; the return to the menu leaves exactly
\* this state
ResetToFresh ==
    /\ [](/\ IsFresh(resetGame(game))
          /\ resetGame(resetGame(game)) = resetGame(game))
    /\ [][(app'.gameState = MENU /\ app.gameState # MENU) =>
            /\ game' = resetGame(game)
            /\ IsFresh(game')
            /\ resetGame(game') = game']_vars

\* back in the menu after a collision in the middle of a slide: the reset
\* has acted on a state with the sliding flag set and the timer running
ResetToFreshWitness ==
    /\ app.gameState = MENU /\ run.starts = 1
    /\ IsFresh(game) /\ game.collapsed
    /\ game.slideTimer > 0 /\ game.slideTimer < SLIDE_TICKS

\* C12: with one car in the centre lane, the player in the centre lane and
\* never jumping, and the frames running: the active run leads to
\* GAME_OVER; as long as it is active the player has neither met nor
\* passed the car; onGameOver is called once, with the score the bones
\* collected up to that tick have made
LowObstacleEndsRun ==
    /\ game.gameActive ~> (app.gameState = GAME_OVER)
    /\ [](game.gameActive =>
             \A o \in game.obstacles :
                /\ ~intersectsBox(ObstacleBox(o), PlayerBox(game))
                /\ PlayerBox(game).z0 > ObstacleBox(o).z1)
    /\ [](run.gameOvers <= 1)
    /\ [](app.gameState = GAME_OVER =>
             /\ run.gameOvers = 1
             /\ app.score = game.score
             /\ game.score = COIN_REWARD * Cardinality(run.taken)
             /\ \E o \in game.obstacles :
                   /\ o.type = OBSTACLE_LOW /\ o.lane = LaneCenter
                   /\ intersectsBox(ObstacleBox(o), PlayerBox(game)))
    /\ [][(ActiveTickStep /\ ev'.gameOver > 0) =>
            ev'.gameOver = 1 /\ ev'.gameOverScore = game'.score]_vars

\* the run has ended on the car after a bone was collected
LowObstacleEndsRunWitness ==
    /\ app.gameState = GAME_OVER /\ run.starts = 1
    /\ ev.gameOver = 1 /\ ev.gameOverScore = 10 /\ app.score = 10
    /\ ~game.isJumping /\ game.playerLane = LaneCenter
    /\ \E o \in game.obstacles :
          /\ o.type = OBSTACLE_LOW /\ o.lane = LaneCenter
          /\ intersectsBox(ObstacleBox(o), PlayerBox(game))

\* the depths at which a state holds obstacles or collectibles
Depths(s) == {o.z : o \in s.obstacles} \cup {c.z : c \in s.coins}

\* C13: an active tick creates a segment if and only if the spawn boundary
\* is nearer than 120 beyond the player's chunk, and then exactly one, 20
\* beyond the boundary, which becomes the boundary; the boundary never
\* moves back; the new segment lies beyond every segment there is, and
\* what is spawned with it lies within it and beyond everything there is
SpawnOnce ==
    /\ [](/\ \A c \in game.floorChunks : c >= game.lastSpawnZ
          /\ \A d \in Depths(game) \cup game.scenery :
                d > game.lastSpawnZ - CHUNK_LENGTH)
    /\ [][ActiveTickStep =>
            LET due == game.lastSpawnZ > NextSpawnZ(game')
                z == game.lastSpawnZ - CHUNK_LENGTH
            IN /\ game'.lastSpawnZ = IF due THEN z ELSE game.lastSpawnZ
               /\ game'.lastSpawnZ <= game.lastSpawnZ
               /\ game'.floorChunks \ game.floorChunks = IF due THEN {z} ELSE {}
               /\ due => \A c \in game.floorChunks : z < c
               /\ \A d \in (Depths(game') \ Depths(game))
                             \cup (game'.scenery \ game.scenery) :
                     /\ due
                     /\ d <= z /\ d > z - CHUNK_LENGTH
                     /\ \A old \in Depths(game) \cup game.scenery : d < old]_vars

\* several chunks into the run a tick has just spawned a chunk with a bone
SpawnOnceWitness ==
    /\ game.gameActive
    /\ game.lastSpawnZ <= INITIAL_SPAWN_Z - 3 * CHUNK_LENGTH
    /\ NextSpawnZ(game) = game.lastSpawnZ
    /\ game.lastSpawnZ \in game.floorChunks
    /\ \E c \in game.coins : c.spin = 1 /\ c.z < game.lastSpawnZ

\* C14: at the end of every tick no obstacle, collectible or scenery object
\* lies more than 20 behind the player, and no segment remains whose
\* trailing edge (its far end, zStart - 20, the last of it the player
\* passes) is more than 20 behind the player
CulledWithinTick ==
    /\ \A o \in game.obstacles : o.z <= game.playerZ + 20 * Unit
    /\ \A c \in game.coins : c.z <= game.playerZ + 20 * Unit
    /\ \A z \in game.scenery : z <= game.playerZ + 20 * Unit
    /\ \A c \in game.floorChunks : c - CHUNK_LENGTH <= game.playerZ + 20 * Unit

\* far into the run an obstacle, a bone and a building lie behind the
\* player within the margin, and the oldest segment is about to go
CulledWithinTickWitness ==
    /\ game.gameActive /\ game.playerZ < -(100 * CHUNK_LENGTH)
    /\ \E o \in game.obstacles : o.z > game.playerZ
    /\ \E c \in game.coins : c.z > game.playerZ
    /\ \E z \in game.scenery : z > game.playerZ + 19 * Unit
    /\ \E c \in game.floorChunks :
          c - CHUNK_LENGTH \div 2 > game.playerZ + 19 * Unit

\* C15: every change of scoreRef, by a collection or by a reset, comes with
\* a call of onScoreUpdate that hands the new value to App, and
\* onScoreUpdate is not called when scoreRef has not changed
ScoreReported ==
    [][/\ game'.score # game.score =>
            ev'.scoreUpdate > 0 /\ app'.score = game'.score
       /\ ev'.scoreUpdate > 0 => game'.score # game.score]_vars

\* the same for the ticks alone: every collection is reported
CollectionReported ==
    [][app'.gameState # MENU =>
         /\ game'.score # game.score =>
               ev'.scoreUpdate > 0 /\ app'.score = game'.score
         /\ ev'.scoreUpdate > 0 => game'.score # game.score]_vars

JumpKeys == {"w", "W", "ArrowUp", " "}
SlideKeys == {"s", "S", "ArrowDown"}

\* the pose is Running
Running(s) == ~s.isJumping /\ ~s.isSliding

\* C16: a jump key is accepted if and only if the run is active and the
\* pose is Running, and then sets the jumping flag and the velocity 0.5
\* and nothing else; a slide key is accepted under the same condition and
\* then sets the sliding flag and the timer 50 and nothing else; a jump or
\* slide key in any other state changes nothing and plays no cue
PoseInputs ==
    [][/\ pressed' \in JumpKeys =>
            IF game.gameActive /\ Running(game)
            THEN /\ game' = [game EXCEPT !.isJumping = TRUE,
                                         !.playerVelocityY = 10000]
                 /\ ev'.jump = 1
            ELSE game' = game /\ ev' = NoEvents
       /\ pressed' \in SlideKeys =>
            IF game.gameActive /\ Running(game)
            THEN /\ game' = [game EXCEPT !.isSliding = TRUE,
                                         !.slideTimer = 50]
                 /\ ev'.slide = 1
            ELSE game' = game /\ ev' = NoEvents]_vars

\* a slide key has been refused in the air
PoseInputsWitness ==
    /\ pressed = "ArrowDown" /\ game.gameActive
    /\ game.isJumping /\ ~game.isSliding
    /\ game.playerJumpY > 0 /\ game.playerVelocityY < 10000
    /\ ev = NoEvents

\* the obstacles a tick ends the run on: those of the array whose box meets
\* the player's where the tick has put it, and that the pose does not avoid
Struck == {o \in game.obstacles :
             /\ intersectsBox(ObstacleBox(o), PlayerBox(game'))
             /\ IsHit(game', o)}

\* C17: after the tick in which a collision ends the run, the obstacle
\* collided with is no longer in the array of live obstacles
CollidedObstacleRemoved ==
    [][(ActiveTickStep /\ ev'.gameOver > 0) =>
          /\ Struck # {}
          /\ \A o \in Struck : o \notin game'.obstacles]_vars

\* the floor as culling and spawning leave it when they run first, on the
\* world as the tick finds it, before the player is moved
StreamedFirst == SpawnStep(FloorCullStep(game), NoSpawn)

\* the floor as culling and spawning leave it when they run on the
\* position the tick has already advanced
StreamedAfterMove ==
    SpawnStep(FloorCullStep([game EXCEPT !.playerZ = game'.playerZ]), NoSpawn)

\* C18: an active tick runs streaming/culling, then spawning, then the
\* physics, then the collisions: the segments culled and the segment
\* spawned are those the position before the tick's move asks for
TickInStatedOrder ==
    [][ActiveTickStep =>
          /\ game'.lastSpawnZ = StreamedFirst.lastSpawnZ
          /\ game'.floorChunks = StreamedFirst.floorChunks]_vars

\* the order of the code: the physics first, then culling and spawning
TickInCodeOrder ==
    [][ActiveTickStep =>
          /\ game'.lastSpawnZ = StreamedAfterMove.lastSpawnZ
          /\ game'.floorChunks = StreamedAfterMove.floorChunks]_vars

\* C19: the cleanup removes both listeners and cancels the pending frame
\* in one step, wherever the run stands; while mounted the one pending
\* request is the one frameIdRef names; after the cleanup nothing is
\* registered or pending and no tick and no handler runs again
TornDownForGood ==
    /\ [](host.mounted => host.requested = {host.frameId})
    /\ [](~host.mounted =>
             ~host.resize /\ ~host.keydown /\ host.requested = {})
    /\ [][/\ host.mounted
          /\ ~host'.mounted =>
                /\ ~host'.resize /\ ~host'.keydown /\ host'.requested = {}
                /\ game' = game /\ app' = app]_vars

\* unmounted in the middle of a jump, the second handle pending
TornDownForGoodWitness ==
    /\ ~host.mounted /\ host.frameId = FIRST_FRAME + 1
    /\ game.gameActive /\ game.isJumping /\ game.playerJumpY > 0

\* C20: once the run is inactive after a start (game over, back in the
\* menu) no frame is requested any more
LoopCancelledWhenInactive ==
    (host.mounted /\ run.starts > 0 /\ ~game.gameActive) => host.requested = {}

\* C21: every start of a run finds the reset state (score 0, base speed,
\* centre lane, nothing of the world but the initial segments) with the
\* pose Running in its full profile: the body group at scale 1 and at
\* position 0, whatever the pose in which the run before has ended
StartFromFresh ==
    [][(app.gameState = MENU /\ app'.gameState = PLAYING) =>
          /\ IsFresh(game')
          /\ ~game'.collapsed
          /\ game'.bodyY = 0]_vars

\* the same without the body group: what resetGame does reset
StartFromFreshRefs ==
    [][(app.gameState = MENU /\ app'.gameState = PLAYING) =>
          IsFresh(game')]_vars

\* the audio cues a step has played
Cues(e) == e.jump + e.slide + e.coin + e.crash + e.whine

\* C22: a key press that changes the lane or the pose plays exactly one
\* cue (the slide cue for a lane change and for a slide, the jump cue for
\* a jump); a press that is refused (a lane change at the outer lane, a
\* jump or a slide while not Running, any key while the run is inactive)
\* plays none
InputCues ==
    [][pressed' # "" =>
          /\ Cues(ev') = IF game' # game THEN 1 ELSE 0
          /\ game'.playerLane # game.playerLane =>
                ev'.slide = 1 /\ ev'.jump = 0
          /\ (game'.isJumping /\ ~game.isJumping) =>
                ev'.jump = 1 /\ ev'.slide = 0
          /\ (game'.isSliding /\ ~game.isSliding) =>
                ev'.slide = 1 /\ ev'.jump = 0
          /\ (\/ ~game.gameActive
              \/ pressed' \in LeftKeys /\ game.playerLane = LaneLeft
              \/ pressed' \in RightKeys /\ game.playerLane = LaneRight
              \/ pressed' \in JumpKeys \cup SlideKeys /\ ~Running(game)) =>
                Cues(ev') = 0 /\ game' = game]_vars

\* the lane was changed to the right lane in the air, with the one cue
InputCuesWitness ==
    /\ pressed = "D" /\ game.playerLane = LaneRight /\ game.isJumping
    /\ ev.slide = 1 /\ ev.jump = 0 /\ Cues(ev) = 1

\* the obstacles and collectibles a step has created
Created == {e \in game'.coins \cup game'.obstacles : e.z \notin Depths(game)}

\* C23: a tick creates at most two obstacles/collectibles, in distinct
\* lanes of {0, 1, 2}, so that a lane is left free; each is of exactly
\* one of the three types and in exactly one of the two arrays, the
\* collectibles in coins and the obstacles in obstacles; an entity keeps
\* its type as long as it is there
SpawnedEntities ==
    /\ [][ActiveTickStep =>
            /\ Cardinality(Created) <= 2
            /\ \A a, b \in Created : a.lane = b.lane => a = b
            /\ \A a \in Created : a.lane \in Lanes
            /\ \E l \in Lanes : \A a \in Created : a.lane # l
            /\ \A a \in game'.coins \cup game'.obstacles :
                  a.z \in Depths(game) =>
                     \E b \in game.coins \cup game.obstacles :
                        /\ b.z = a.z /\ b.lane = a.lane
                        /\ b.type = a.type /\ b.model = a.model
                        /\ (b \in game.coins) = (a \in game'.coins)]_vars
    /\ [](/\ \A c \in game.coins : c.type = COIN
          /\ \A o \in game.obstacles : o.type \in {OBSTACLE_LOW, OBSTACLE_HIGH}
          /\ \A c \in game.coins, o \in game.obstacles :
                c.z # o.z \/ c.lane # o.lane)

\* a chunk has received a bone and a bus, in two lanes
SpawnedEntitiesWitness ==
    /\ game.gameActive
    /\ Cardinality(game.coins) = 1 /\ Cardinality(game.obstacles) = 1
    /\ \E c \in game.coins, o \in game.obstacles :
          /\ c.lane # o.lane /\ c.model = "bone" /\ o.model = "bus"
          /\ o.type = OBSTACLE_HIGH

\* what the collision pass of a tick decides
Verdict(r) == [taken |-> r.e.taken, ended |-> r.e.gameOver > 0]

\* C24: the collectibles a tick collects and whether it ends the run are
\* the same for every sample of the animation clock: from one state of
\* the run, ticks that differ in the phase of the run animation (limbs,
\* bounce) or in the pulse of the glow decide alike
CollisionsIgnorePresentation ==
    game.gameActive =>
       \A f1 \in Frames, f2 \in Frames, g1 \in Glows, g2 \in Glows :
          Verdict(loop(game, f1, g1, NoSpawn)) =
             Verdict(loop(game, f2, g2, NoSpawn))

\* a second host schedules HostRatio ticks in the time in which the first
\* schedules one
HostRatio == 2

\* the refs after n more ticks of the speed ramp and the forward motion
RECURSIVE Advanced(_, _)
Advanced(s, n) ==
    IF n = 0 THEN s ELSE Advanced(ForwardStep(SpeedStep(s)), n - 1)

\* C25: the forward position and the speed of a run are a function of the
\* time elapsed since its start, whatever the number of ticks per unit of
\* time: the host that has run run.ticks ticks is where the host at one
\* tick in HostRatio is after its run.ticks / HostRatio ticks
FrameRateIndependent ==
    (game.gameActive /\ run.ticks % HostRatio = 0) =>
       \E slow \in {Advanced([game EXCEPT !.playerZ = 0,
                                           !.speed = PLAYER_SPEED_BASE],
                              run.ticks \div HostRatio)} :
          /\ game.playerZ = slow.playerZ
          /\ game.speed = slow.speed

\* the forward motion is a function of the number of ticks
TickCounted ==
    game.gameActive =>
       \E same \in {Advanced([game EXCEPT !.playerZ = 0,
                                           !.speed = PLAYER_SPEED_BASE],
                              run.ticks)} :
          game.playerZ = same.playerZ /\ game.speed = same.speed

\* the responses that are a failure of the collaborator: the request
\* threw, the text is missing or empty, the text is not JSON
FailedResponses ==
    {response \in Responses :
        \/ response.threw
        \/ response.text \in {"", PLAIN_TEXT, TRUNCATED_TEXT}}

\* C26: generateMission is never rejected and is fulfilled with the
\* fallback mission on every failed response; a mission load that was
\* started is followed by isLoadingMission = false; the step on which a
\* load settles changes nothing of the simulation, of the score or of the
\* game state, and the step that starts one does what the return to the
\* menu does
MissionNeverFails ==
    /\ [](\A response \in Responses :
             /\ ~generateMission(response).rejected
             /\ response \in FailedResponses =>
                   generateMission(response).value = FALLBACK_MISSION)
    /\ [](briefing.isLoadingMission => briefing.calls > 0)
    /\ (briefing.isLoadingMission ~> ~briefing.isLoadingMission)
    /\ [][(briefing'.calls < briefing.calls =>
              game' = game /\ app' = app /\ run' = run /\ host' = host)
           /\ (briefing'.calls > briefing.calls =>
              game' = gameStateEffect(game, MENU) /\ app'.score = app.score)]_vars

\* the load of a restart has failed during the second run, which goes on
\* with the fallback mission and the flag cleared
MissionNeverFailsWitness ==
    /\ briefing.mission = {FALLBACK_MISSION}
    /\ ~briefing.isLoadingMission /\ briefing.calls = 0
    /\ run.starts = 2 /\ game.gameActive /\ run.ticks > 0
    /\ game.playerZ < 0

\* C27: a, A and ArrowLeft are the lane-left input, d, D and ArrowRight
\* the lane-right input, w, W, ArrowUp and the space the jump input, s, S
\* and ArrowDown the slide input: a press of one of them in an active run
\* does what that one input does and nothing of the others (no key is of
\* two inputs), and a press of any other key changes nothing at all
KeyBindings ==
    /\ [](\A a, b \in {LeftKeys, RightKeys, JumpKeys, SlideKeys} :
             a # b => a \cap b = {})
    /\ [][(pressed' # "" /\ game.gameActive) =>
            /\ pressed' \in LeftKeys =>
                  game' = IF game.playerLane > LaneLeft
                          THEN [game EXCEPT !.playerLane = @ - 1] ELSE game
            /\ pressed' \in RightKeys =>
                  game' = IF game.playerLane < LaneRight
                          THEN [game EXCEPT !.playerLane = @ + 1] ELSE game
            /\ pressed' \in JumpKeys =>
                  game' = IF Running(game)
                          THEN [game EXCEPT !.isJumping = TRUE,
                                            !.playerVelocityY = JUMP_FORCE]
                          ELSE game
            /\ pressed' \in SlideKeys =>
                  game' = IF Running(game)
                          THEN [game EXCEPT !.isSliding = TRUE,
                                            !.slideTimer = SLIDE_TICKS]
                          ELSE game
            /\ pressed' \notin LeftKeys \cup RightKeys \cup JumpKeys \cup SlideKeys =>
                  /\ game' = game /\ ev' = NoEvents /\ app' = app
                  /\ host' = host /\ briefing' = briefing
                  /\ run' = run]_vars

\* the upper-case S has started a slide in the left lane
KeyBindingsWitness ==
    /\ pressed = "S" /\ game.isSliding /\ game.slideTimer = SLIDE_TICKS
    /\ game.playerLane = LaneLeft /\ ev.slide = 1

\* C28: an active tick evaluates the collisions once and where the tick
\* itself has put the player: onGameOver is called once for every obstacle
\* that meets the player's box at the position and in the pose after this
\* tick's update and that the pose does not avoid, a bone is collected
\* once if and only if it meets that box, and a tick of an inactive run
\* evaluates nothing
CollisionsAfterUpdate ==
    /\ [][ActiveTickStep =>
            /\ ev'.gameOver = Cardinality(Struck)
            /\ ev'.crash = Cardinality(Struck)
            /\ RunEnded = (Struck # {})
            /\ \E glow \in Glows :
                  /\ ev'.taken = {<<c.lane, c.z>> : c \in Met(glow)}
                  /\ ev'.coin = Cardinality(Met(glow))]_vars
    /\ [][(~game.gameActive /\ pressed' = "" /\ host'.mounted
           /\ app'.gameState = app.gameState /\ briefing' = briefing) =>
            ev' = NoEvents]_vars

\* the run has ended on an obstacle that the player's box has met in the
\* last tick and did not meet where the player was before it
CollisionsAfterUpdateWitness ==
    /\ app.gameState = GAME_OVER /\ ev.gameOver = 1
    /\ \E o \in game.obstacles :
          /\ intersectsBox(ObstacleBox(o), PlayerBox(game))
          /\ ~intersectsBox(ObstacleBox(o), PlayerBox(BeforeMove(game)))

\* the last active tick of a jump is the JUMP_TICKS-th after the input
JUMP_TICKS == 85

\* the number of active ticks since the jump input, by the velocity left
JumpAge(s) == (JUMP_FORCE - s.playerVelocityY) \div GRAVITY

\* the vertical offset n active ticks after the jump input
JumpHeight(n) == n * JUMP_FORCE - GRAVITY * ((n * (n - 1)) \div 2)

\* C29: the vertical offset is never negative; a jump is in its n-th
\* tick for some n < 85, at the offset of that tick, which is above the
\* ground from the first tick on; the 85th active tick after the input
\* ends it with the pose Running, the offset 0 and the velocity 0, and no
\* earlier tick does
JumpEnds ==
    /\ [](game.playerJumpY >= 0)
    /\ [](game.isJumping =>
             /\ JumpAge(game) \in 0..(JUMP_TICKS - 1)
             /\ game.playerVelocityY = JUMP_FORCE - GRAVITY * JumpAge(game)
             /\ game.playerJumpY = JumpHeight(JumpAge(game))
             /\ JumpAge(game) > 0 => game.playerJumpY > 0)
    /\ [](~game.isJumping => game.playerJumpY = 0 /\ game.playerVelocityY = 0)
    /\ [](run.landed > 0 => run.ticks >= JUMP_TICKS)
    /\ [][(ActiveTickStep /\ game.isJumping) =>
            IF JumpAge(game) = JUMP_TICKS - 1
            THEN /\ Running(game')
                 /\ game'.playerJumpY = 0 /\ game'.playerVelocityY = 0
            ELSE /\ game'.isJumping
                 /\ JumpAge(game') = JumpAge(game) + 1]_vars

\* a jump has just ended with its 85th tick
JumpEndsWitness ==
    /\ game.gameActive /\ run.landed = 1 /\ run.ticks = JUMP_TICKS
    /\ Running(game) /\ game.legs # "tucked"
    /\ game.playerJumpY = 0 /\ game.playerVelocityY = 0

\* C30: a slide input sets the timer to 50; each of the next 49 active
\* ticks leaves the pose Sliding, so that it is Sliding at their collision
\* evaluation, and the 50th sets the pose Running before its collision
\* evaluation; a slide input during the slide leaves the timer alone
SlideEnds ==
    /\ [](game.isSliding => game.slideTimer \in 1..SLIDE_TICKS)
    /\ [](run.rose > 0 => run.ticks >= SLIDE_TICKS)
    /\ [][(pressed' \in SlideKeys /\ Running(game) /\ game.gameActive) =>
            game'.isSliding /\ game'.slideTimer = SLIDE_TICKS]_vars
    /\ [][(pressed' # "" /\ game.isSliding) => game' = game]_vars
    /\ [][(ActiveTickStep /\ game.isSliding) =>
            IF game.slideTimer = 1
            THEN Running(game') /\ ~game'.collapsed
            ELSE /\ game'.isSliding /\ game'.collapsed
                 /\ game'.slideTimer = game.slideTimer - 1]_vars

\* a slide has just ended with its 50th tick
SlideEndsWitness ==
    /\ game.gameActive /\ run.rose = 1 /\ run.ticks = SLIDE_TICKS
    /\ Running(game) /\ game.slideTimer = 0 /\ ~game.collapsed

\* C31: the score changes by +10 for every collectible a tick collects
\* and to 0 by the reset of a return to the menu, and in no other way: a
\* tick that collects nothing (whatever it culls, whatever obstacle the
\* player meets) and a key press leave it as it is; in a run it never
\* decreases and it is 10 times the number of collectibles collected
ScoreChanges ==
    /\ [](game.score = COIN_REWARD * Cardinality(run.taken))
    /\ [][ActiveTickStep =>
            /\ game'.score = game.score + COIN_REWARD * Cardinality(ev'.taken)
            /\ ev'.taken = {} => game'.score = game.score
            /\ game'.score >= game.score]_vars
    /\ [][pressed' # "" => game'.score = game.score]_vars
    /\ [][game'.score # game.score =>
            \/ ActiveTickStep /\ ev'.taken # {}
            \/ (/\ app.gameState = GAME_OVER /\ app'.gameState = MENU
                /\ game'.score = 0)]_vars

\* the bone of the centre lane was collected and the bone of the right
\* lane has just gone behind the cull line: the score is still 10
ScoreChangesWitness ==
    /\ game.gameActive /\ game.score = 10 /\ game.coins = {}
    /\ run.taken = {<<LaneCenter, INITIAL_SPAWN_Z - CHUNK_LENGTH - SPAWN_MIN_OFFSET>>}
    /\ ev.taken = {} /\ ev.scoreUpdate = 0
    /\ game.playerZ + CULL_MARGIN <
          INITIAL_SPAWN_Z - CHUNK_LENGTH - SPAWN_MIN_OFFSET - 40000
    /\ game.playerZ + CULL_MARGIN + ToFixed(game.speed) >=
          INITIAL_SPAWN_Z - CHUNK_LENGTH - SPAWN_MIN_OFFSET - 40000

\* the chunk spawned at c lies from c - CHUNK_LENGTH to c
Under(c, z) == c - CHUNK_LENGTH <= z /\ z <= c

\* C32: in an active run the spawn boundary is at or beyond the look-ahead
\* of the player's chunk; the chunks present are at multiples of 20, from
\* the spawn boundary towards the player without a gap; a tick spawns at
\* most one chunk, the next below the boundary, which is not there yet;
\* and the chunk the player is on is present
WindowCovers ==
    /\ [](game.gameActive =>
             /\ game.lastSpawnZ <= NextSpawnZ(game)
             /\ game.lastSpawnZ \in game.floorChunks
             /\ \A c \in game.floorChunks :
                   /\ c % CHUNK_LENGTH = 0
                   /\ c >= game.lastSpawnZ
                   /\ c = game.lastSpawnZ \/ c - CHUNK_LENGTH \in game.floorChunks
             /\ \E c \in game.floorChunks : Under(c, game.playerZ))
    /\ [][ActiveTickStep =>
            /\ game'.floorChunks \ game.floorChunks \subseteq {game'.lastSpawnZ}
            /\ game'.lastSpawnZ # game.lastSpawnZ =>
                  /\ game'.lastSpawnZ = game.lastSpawnZ - CHUNK_LENGTH
                  /\ game'.lastSpawnZ \notin game.floorChunks
                  /\ game'.lastSpawnZ \in game'.floorChunks]_vars

\* far into the run: the chunks of the start are gone, the window has its
\* nine chunks, and the player has just entered a new chunk
WindowCoversWitness ==
    /\ game.gameActive /\ run.ticks > 1000
    /\ 0 \notin game.floorChunks /\ INITIAL_SPAWN_Z \notin game.floorChunks
    /\ Cardinality(game.floorChunks) = 9
    /\ game.lastSpawnZ = NextSpawnZ(game)
    /\ \E c \in game.floorChunks :
          Under(c, game.playerZ) /\ ~Under(c, game.playerZ + ToFixed(game.speed))

\* C33: while the pose is not Jumping the vertical offset and the
\* vertical velocity are 0; so an offset above the clearance of a low
\* obstacle is met only in the pose Jumping, the pose Sliding only with
\* the offset 0, and the step that ends a jump leaves both at 0
GroundedUnlessJumping ==
    /\ [](~game.isJumping =>
             game.playerJumpY = 0 /\ game.playerVelocityY = 0)
    /\ [](game.playerJumpY > LOW_CLEARANCE => game.isJumping /\ ~game.isSliding)
    /\ [](game.isSliding => game.playerJumpY = 0)
    /\ [][(game.isJumping /\ ~game'.isJumping) =>
            game'.playerJumpY = 0 /\ game'.playerVelocityY = 0]_vars

\* a slide that was started after a jump had landed
GroundedUnlessJumpingWitness ==
    /\ game.gameActive /\ run.landed = 1
    /\ game.isSliding /\ ~game.isJumping
    /\ game.playerJumpY = 0 /\ game.playerVelocityY = 0

\* C34: the collision evaluation of every active tick finds the body
\* group collapsed if and only if the pose is Sliding, also in a run that
\* follows a run which ended in a slide
ProfileFollowsPose ==
    [][ActiveTickStep => (game'.collapsed <=> game'.isSliding)]_vars

\* the same for first runs only
ProfileFollowsPoseFirstRun ==
    [][(ActiveTickStep /\ run.starts = 1) =>
          (game'.collapsed <=> game'.isSliding)]_vars

\* C35: the game state changes only from MENU to PLAYING (by the start,
\* which activates the run), from PLAYING to GAME_OVER (by a tick that
\* has called onGameOver, which deactivates it) and from GAME_OVER to
\* MENU (by the restart); the run is active only in PLAYING; and in MENU,
\* however it was entered, the refs are those of the reset
GameStateCycle ==
    /\ [][app'.gameState # app.gameState =>
            \/ /\ app.gameState = MENU /\ app'.gameState = PLAYING
               /\ ~game.gameActive /\ game'.gameActive
               /\ ev' = NoEvents
            \/ /\ app.gameState = PLAYING /\ app'.gameState = GAME_OVER
               /\ game.gameActive /\ ~game'.gameActive
               /\ ev'.gameOver > 0
            \/ /\ app.gameState = GAME_OVER /\ app'.gameState = MENU
               /\ ~game.gameActive /\ ~game'.gameActive
               /\ ev' = NoEvents]_vars
    /\ [](app.gameState \in {MENU, PLAYING, GAME_OVER})
    /\ [](game.gameActive => app.gameState = PLAYING)
    /\ [](app.gameState = MENU => IsFresh(game))

\* the cycle was gone through once: a second run is under way
GameStateCycleWitness ==
    /\ app.gameState = PLAYING /\ game.gameActive
    /\ run.starts = 2 /\ run.ticks > 0 /\ game.playerZ < 0

\* C36: in PLAYING and in GAME_OVER the score of App is scoreRef: the
\* start leaves both at 0, a tick that collects leaves both at the new
\* score, and a tick that ends the run passes to onGameOver, and leaves
\* in App, the score including what this very tick has collected
ScoresAgree ==
    /\ [](app.gameState \in {PLAYING, GAME_OVER} => app.score = game.score)
    /\ [][(app.gameState = MENU /\ app'.gameState = PLAYING) =>
            app'.score = 0 /\ game'.score = 0]_vars
    /\ [][(ActiveTickStep /\ ev'.taken # {}) =>
            /\ game'.score = game.score + COIN_REWARD * Cardinality(ev'.taken)
            /\ app'.score = game'.score]_vars
    /\ [][(ActiveTickStep /\ ev'.gameOver > 0) =>
            /\ ev'.gameOverScore = game'.score
            /\ ev'.gameOverScore =
                  game.score + COIN_REWARD * Cardinality(ev'.taken)
            /\ app'.score = game'.score]_vars

\* the run has ended under a bridge in the tick in which the bone beside
\* it was collected: the final score counts that bone
ScoresAgreeWitness ==
    /\ app.gameState = GAME_OVER /\ ev.gameOver = 1 /\ ev.coin = 1
    /\ Cardinality(run.taken) = 2
    /\ ev.gameOverScore = 20 /\ app.score = 20 /\ game.score = 20

\* C37: the obstacles and collectibles a tick creates lie in the chunk
\* this tick has spawned, at least 125 ahead of where the tick has put
\* the player, and none at a depth above -165; as long as the player has
\* not gone beyond the depth -20 there is no obstacle and no collectible
SpawnedAhead ==
    /\ [][ActiveTickStep =>
            \A e \in Created :
               /\ game'.lastSpawnZ = game.lastSpawnZ - CHUNK_LENGTH
               /\ e.z <= game'.lastSpawnZ
               /\ e.z >= game'.lastSpawnZ - CHUNK_LENGTH
               /\ game'.playerZ - e.z >= 125 * Unit
               /\ e.z <= -(165 * Unit)]_vars
    /\ [](game.playerZ >= -(20 * Unit) =>
             game.obstacles = {} /\ game.coins = {})
    /\ [](\A e \in game.obstacles \cup game.coins : e.z <= -(165 * Unit))

\* far into the run a car was just created at the near end of its
\* range, the player having just entered a new chunk
SpawnedAheadWitness ==
    /\ game.gameActive /\ run.ticks > 1000
    /\ \E o \in game.obstacles :
          /\ o.z = game.lastSpawnZ - SPAWN_MIN_OFFSET
          /\ game.playerZ - o.z >= 125 * Unit
          /\ game.playerZ - o.z < 125 * Unit + ToFixed(game.speed)

\* C38: at no time is more than one loop timer of the theme pending, and
\* a start of the music while it is playing arms none
OneThemeLoop ==
    /\ [](audio.timers <= 1)
    /\ [][audio.isMusicPlaying /\ audio'.isMusicPlaying =>
            audio'.timers <= audio.timers]_vars

=============================================================================
